---- MODULE Spec2Model ----
(***************************************************************************)
(* The request execution engine of superagent-lite: Request.execute,       *)
(* Request.doFetch and Request.abort of src/src/response.ts, run against   *)
(* an environment that answers the transport call, settles the hooks,      *)
(* expires timers and aborts signals.                                      *)
(*                                                                         *)
(* One behaviour is one execution of one Request object.  A step is the    *)
(* code that runs between two suspension points (await), or one event of   *)
(* the environment.                                                        *)
(***************************************************************************)
EXTENDS Integers, Sequences, FiniteSets

\* ------------------------------------------------------------------ bounds

\* Largest retry limit the request is configured with.
MaxRetry == 2
\* Largest number of hooks registered in each hook category.
MaxHooks == 2
\* Largest retry limit of the executions that follow the backoff schedule up
\* to its cap.
MaxBackoffRetry == 7
\* the most field() calls and attach() calls made on a request
MaxFields == 2
MaxAttachments == 2

\* --------------------------------------------------------- program constants

DEFAULT_RETRY_METHODS == {"GET", "HEAD", "OPTIONS", "PUT", "DELETE"}
DEFAULT_RETRY_STATUS_CODES == {408, 413, 429, 500, 502, 503, 504}

\* 2 ** e, as Math.pow computes it for the small non-negative e used here.
RECURSIVE Pow2(_)
Pow2(e) == IF e <= 0 THEN 1 ELSE 2 * Pow2(e - 1)

Min(a, b) == IF a <= b THEN a ELSE b

\* The backoff with the exponent off by one (1000 * 2 ** attemptCount).
defaultRetryDelay_OffByOne(attemptCount) == Min(1000 * Pow2(attemptCount), 30000)

defaultRetryDelay(attemptCount) == Min(1000 * Pow2(attemptCount - 1), 30000)

\* ------------------------------------------------------------ environment

\* Methods a request is made with: one inside and one outside the default
\* retry allow-list.
Methods == {"GET", "POST"}
\* Statuses the transport answers with: 2xx, non-retryable, retryable.
Statuses == {200, 404, 500}
\* Statuses of the response an after-response hook may substitute.
ReplacementStatuses == {200, 500}
\* The duration given to timeout(ms), when one is given.
TimeoutMs == 5000

VARIABLES
    \* the request as configured before it is consumed
    method,           \* _method
    limitOption,      \* _retry.limit: <<>> when _retry has no limit, else <<n>>
    retryLimit,       \* _retry.limit ?? 0
    throwHttpErrors,  \* _throwHttpErrors
    timeoutMs,        \* _timeout.request || _timeout.response (0: none)
    hasExternal,      \* _externalSignal !== null
    nHooks,           \* hooks registered in each category
    customDelay,      \* a delay function is given in _retry.delay
    entry,            \* how the caller consumes the request: "execute" for
                      \* then/catch/finally/end/json/text, "blob" for
                      \* blob/arrayBuffer
    body,             \* _body: a value, see Obj, Str, Num, Undefined
    formFields,       \* _formFields: its entries in insertion order
    attachments,      \* _attachments
    fieldNames,       \* the names field() was called with, in call order
    headers,          \* _headers: its entries for the content-type header, in
                      \* insertion order
    query,            \* _query: its entries in insertion order
    \* the execution
    pc,               \* the suspension point the execution waits at
    attempt,          \* the loop variable of execute
    hookIdx,          \* the hook being awaited (1-based), 0 if none
    fetchStatus,      \* status of fetchResponse of this attempt, 0 if none
    response,         \* the working response of this attempt
    error,            \* the working error of the before-error loop
    prepared,         \* the locals url and body of doFetch
    \* cancellation
    ctrl,             \* _abortController: attempt that created it, -1 null,
                      \* OtherCtrl when the other execution created it
    ctrlAborted,      \* signal.aborted of the controller this execution
                      \* created last
    other,            \* a second execution of the same Request object, started
                      \* by consuming it once more: where it stands, whether
                      \* the signal of its controller is aborted, how it settled
    timers,           \* pending timeout timers, by arming attempt, oldest first
    listeners,        \* abort listeners this request added to the external signal
    externalAborted,  \* _externalSignal.aborted
    \* what an observer of the execution has seen
    calls,            \* number of transport calls made
    lastAnswer,       \* what the last transport call was answered, or "inflight"
    prevAnswers,      \* the answers of the transport calls before the last
    bodyUsed,         \* fetchResponse.bodyUsed of the last transport call
    lastError,        \* lastError of execute, from the catch that sets it to
                      \* the start of the next attempt (it is not read later)
    retryCalls,       \* before-retry hook invocations: [hook, n, att]; the
                      \* error argument is lastError, fixed while they run
    delays,           \* the backoff waits started, in order
    outcome,          \* how the execution settled
    causes,           \* causes that aborted the signal during the transport call
    hooksPassive,     \* no hook has thrown or substituted a value so far
    abortSeen,        \* "no"; "yes": abort() was called while the execution was
                      \* pending; "called": and the transport was called on a
                      \* live signal after that
    log,              \* the events of the current attempt, in order
    lastReplace,      \* the last substitution an after-response hook made to
                      \* the response this attempt still carries (as working
                      \* response, result or in its HTTPError): [hook, status],
                      \* hook 0 if none
    encodes,          \* number of times _stringifyJson was called
    sent,             \* the (url, body) pairs the transport was called with
    \* end(callback)
    endPc,            \* where the promise chain built by end() stands
    callbacks         \* the callback's invocations, by what it was given

cfgVars == <<method, limitOption, retryLimit, throwHttpErrors, timeoutMs, hasExternal, nHooks,
             customDelay, entry>>
reqVars == <<body, query, formFields, attachments, fieldNames>>
encoderVars == <<encodes, headers>>
runVars == <<pc, attempt, hookIdx, fetchStatus, response, error, prepared>>
cancelVars == <<ctrl, ctrlAborted, timers, listeners, externalAborted>>
callVars == <<calls, lastAnswer, prevAnswers, bodyUsed>>
histVars == <<callVars, lastError, retryCalls, delays, outcome, causes, hooksPassive, abortSeen,
              log, lastReplace, encoderVars, sent>>
endVars == <<endPc, callbacks>>
vars == <<cfgVars, reqVars, runVars, cancelVars, histVars, endVars, other>>

\* ----------------------------------------------------------------- values

\* Response.body: the parsed JSON object (its members), or the raw text.
Parsed(members) == [parsed |-> TRUE, members |-> members, text |-> <<>>]
Raw(text) == [parsed |-> FALSE, members |-> <<>>, text |-> text]
\* The object the transports answer with where the content is not at stake.
DefaultMembers == << <<"ok", "1">> >>

NoResponse == [status |-> 0, att |-> -1, by |-> 0, body |-> Raw(<<>>)]
\* new Response(fetchResponse, text, responseBody): the transport's own
\* response of attempt att, with the body decoded from it.
ResponseOf(status, att, responseBody) ==
    [status |-> status, att |-> att, by |-> 0, body |-> responseBody]
\* The transport's own response of attempt att to a default reply.
Response(status, att) == ResponseOf(status, att, Parsed(DefaultMembers))
\* A response substituted by after-response hook i.
Replacement(status, att, i) ==
    [status |-> status, att |-> att, by |-> i, body |-> Parsed(DefaultMembers)]

\* globalThis.Response.ok
Ok(status) == status >= 200 /\ status <= 299

Err(kind, status, resp, att, idx) ==
    [kind |-> kind, status |-> status, response |-> resp, att |-> att, idx |-> idx]
NoError == Err("none", 0, NoResponse, -1, 0)
\* the initial value of lastError
NullError == Err("null", 0, NoResponse, -1, 0)
HTTPError(resp) == Err("HTTPError", resp.status, resp, resp.att, 0)
TimeoutError(att) == Err("TimeoutError", 0, NoResponse, att, 0)
\* what fetch rejects with when its signal is aborted (name 'AbortError')
AbortError(att) == Err("AbortError", 0, NoResponse, att, 0)
\* what the JSON parser throws
SyntaxError(att) == Err("SyntaxError", 0, NoResponse, att, 0)
\* what fetch rejects with on a network failure
TransportError(att) == Err("TransportError", 0, NoResponse, att, 0)
\* what hook idx of category cat throws in attempt att
HookError(cat, att, idx) == Err(cat, 0, NoResponse, att, idx)
HookErrorKinds == {"beforeRequestError", "afterResponseError", "beforeErrorError", "beforeRetryError"}
\* the error a before-error hook returns in place of the one it was given
CustomError(att, idx) == Err("CustomError", 0, NoResponse, att, idx)
\* a before-error hook returned nothing: error = undefined
Undefined(att, idx) == Err("undefined", 0, NoResponse, att, idx)
\* reading .name of undefined
TypeError(att) == Err("TypeError", 0, NoResponse, att, 0)

\* What a transport call is answered: a response of some status, a network
\* failure ("neterr"), an AbortError ("abort"); "inflight" until then.
\* The content of a response: its content-type header and its text, as tokens.
Reply(contentType, text) == [contentType |-> contentType, text |-> text]
NoReply == Reply("", <<>>)
AnsweredWith(kind, status, reply) == [kind |-> kind, status |-> status, reply |-> reply]

Pending == [state |-> "pending", error |-> NoError, response |-> NoResponse]
Resolved(resp) == [state |-> "resolved", error |-> NoError, response |-> resp]
Rejected(err) == [state |-> "rejected", error |-> err, response |-> NoResponse]

\* An event of the current attempt.  what is "call" when hook i of category
\* cat is invoked and "return" or "throw" when its promise settles; category
\* "transport" stands for the fetch call, "check" for the HTTP-error test
\* and "backoff" for the wait before the next attempt.
Ev(what, cat, i) == [what |-> what, cat |-> cat, i |-> i]

NoReplace == [hook |-> 0, status |-> 0]

\* The value of ctrl for a controller created by the other execution.
OtherCtrl == -2
OtherIdle == [pc |-> "idle", aborted |-> FALSE, outcome |-> "pending", calls |-> 0]

\* ------------------------------------------------------ request preparation

\* A JavaScript value given to send(), by its typeof: an object of strings
\* (its members in insertion order), a string, a number, or undefined.
Value(t, members, str, num) == [type |-> t, members |-> members, str |-> str, num |-> num]
Undefined_ == Value("undefined", <<>>, "", 0)
Obj(members) == Value("object", members, "", 0)
Str(str) == Value("string", <<>>, str, 0)
Num(num) == Value("number", <<>>, "", num)

\* obj[key] = value on an object kept as its members in insertion order
\* (no property name used here is an array index).
Put(obj, kv) ==
    IF \E i \in DOMAIN obj : obj[i][1] = kv[1]
      THEN [i \in DOMAIN obj |-> IF obj[i][1] = kv[1] THEN kv ELSE obj[i]]
      ELSE Append(obj, kv)

\* { ...obj, ...data }
RECURSIVE Spread(_, _)
Spread(obj, data) ==
    IF data = <<>> THEN obj ELSE Spread(Put(obj, Head(data)), Tail(data))

\* send(data): the new _body.
send(b, data) ==
    IF b.type = "object" /\ data.type = "object"
      THEN Obj(Spread(b.members, data.members))
      ELSE data

\* obj[key] || '' on an object of strings
Get(obj, key) ==
    IF \E i \in DOMAIN obj : obj[i][1] = key
      THEN (CHOOSE kv \in {obj[i] : i \in DOMAIN obj} : kv[1] = key)[2]
      ELSE ""

\* delete obj[key]
Delete(obj, key) == SelectSeq(obj, LAMBDA kv : kv[1] # key)

\* this._headers['content-type'] || ''
ContentType(h) == Get(h, "content-type")

\* key.toLowerCase(), of the header names used here
ToLowerCase(key) == IF key = "Content-Type" THEN "content-type" ELSE key

\* if (options.headers) this._headers = { ...options.headers }
optionsHeaders(h) == Spread(<<>>, h)

\* type(contentType)
type(h, contentType) == Put(h, <<"content-type", contentType>>)

\* send(data): the new _headers.
sendHeaders(h, data) ==
    IF data.type = "object" /\ ContentType(h) = ""
      THEN Put(h, <<"content-type", "application/json">>)
      ELSE h

\* query(params) with an object of strings.
setQuery(q, params) == Spread(q, params)

\* field(name, value)
field(fields, name, value) == Put(fields, <<name, value>>)

\* attach(name, file, filename): file is a string, a Buffer or a Blob of the
\* content data; filename is "" when none is given.
Attachment(name, t, data, filename) ==
    [name |-> name, file |-> [type |-> t, data |-> data], filename |-> filename]

\* The members of a JSON object text, as tokens.
RECURSIVE Members(_)
Members(obj) ==
    IF obj = <<>> THEN <<>>
    ELSE <<Head(obj)[1], ":", Head(obj)[2]>>
           \o (IF Tail(obj) = <<>> THEN <<>> ELSE <<",">> \o Members(Tail(obj)))

\* this._stringifyJson(this._body): JSON.stringify of an object of strings.
stringifyJson(obj) == <<"{">> \o Members(obj) \o <<"}">>

\* new URLSearchParams(obj).toString(), as tokens.
RECURSIVE SearchParams(_)
SearchParams(q) ==
    IF q = <<>> THEN <<>>
    ELSE <<Head(q)[1], "=", Head(q)[2]>>
           \o (IF Tail(q) = <<>> THEN <<>> ELSE <<"&">> \o SearchParams(Tail(q)))

\* The decimal digits of a natural number, as tokens.
RECURSIVE NumberToString(_)
NumberToString(n) ==
    IF n < 10 THEN <<(<<"0", "1", "2", "3", "4", "5", "6", "7", "8", "9">>)[n + 1]>>
    ELSE NumberToString(n \div 10) \o NumberToString(n % 10)

\* String(this._body) of a string or a number, as tokens.
String(v) == IF v.type = "string" THEN <<v.str>> ELSE NumberToString(v.num)

\* The URL of the request (it holds no '?').
Url == <<"/items">>

\* doFetch building the final URL.
BuildUrl(q) == IF Len(q) > 0 THEN Url \o <<"?">> \o SearchParams(q) ELSE Url

\* The body and the query the request is configured with, and what a
\* before-request hook passes to send() and query() when it edits the request.
InitialBody == << <<"a", "1">> >>
InitialQuery == <<>>
EditBody == << <<"a", "2">>, <<"b", "3">> >>
EditQuery == << <<"page", "2">> >>

\* The payload handed to the transport: none, a string (as tokens) or a
\* FormData (its entries in append order).
NoPayload == [kind |-> "none", text |-> <<>>, parts |-> <<>>]
Text(t) == [kind |-> "text", text |-> t, parts |-> <<>>]
Multipart(parts) == [kind |-> "multipart", text |-> <<>>, parts |-> parts]

\* formData.append(key, value)
FieldPart(kv) == [name |-> kv[1], value |-> kv[2], isFile |-> FALSE, filename |-> ""]
\* formData.append(name, new Blob([file]), filename), or with the Blob itself
FilePart(a) == [name |-> a.name, value |-> a.file.data, isFile |-> TRUE, filename |-> a.filename]

\* The FormData doFetch builds: Object.entries(_formFields), then _attachments.
FormData(fields, atts) ==
    [i \in 1 .. Len(fields) |-> FieldPart(fields[i])]
      \o [i \in 1 .. Len(atts) |-> FilePart(atts[i])]

\* contentType.includes('form-urlencoded')
IsFormUrlencoded(ct) == ct = "application/x-www-form-urlencoded"

\* hasAttachments || hasFormFields
IsMultipart(fields, atts) == Len(atts) > 0 \/ Len(fields) > 0

\* doFetch preparing the local body from _body, the content-type header,
\* _formFields and _attachments.
EncodeBody(b, ct, fields, atts) ==
    IF IsMultipart(fields, atts) THEN Multipart(FormData(fields, atts))
    ELSE IF b.type = "undefined" THEN NoPayload
    ELSE IF b.type = "object"
      THEN IF IsFormUrlencoded(ct)
             THEN Text(SearchParams(b.members))
             ELSE Text(stringifyJson(b.members))
    ELSE Text(String(b))

\* _headers as doFetch leaves it when it has prepared the body.
EncodeHeaders(b, h, fields, atts) ==
    IF IsMultipart(fields, atts) THEN Delete(h, "content-type")
    ELSE IF b.type = "object" /\ ~IsFormUrlencoded(ContentType(h)) /\ ContentType(h) = ""
      THEN Put(h, <<"content-type", "application/json">>)
    ELSE h

\* How often doFetch calls _stringifyJson when it prepares the body.
StringifyCalls(b, ct, fields, atts) ==
    IF ~IsMultipart(fields, atts) /\ b.type = "object" /\ ~IsFormUrlencoded(ct) THEN 1 ELSE 0

\* The URL and the body of the request as it was first configured.
Prepare_Frozen(b, q) ==
    [url |-> BuildUrl(InitialQuery), body |-> Text(stringifyJson(InitialBody))]

\* doFetch preparing the URL and the body the transport is called with.
Prepare(b, q) ==
    [url |-> BuildUrl(q), body |-> EncodeBody(b, ContentType(headers), formFields, attachments)]
NotPrepared == [url |-> <<>>, body |-> NoPayload]

\* --------------------------------------------------------- response decoding

\* The reply of a transport where the content is not at stake.
DefaultReply == Reply("application/json", stringifyJson(DefaultMembers))

\* An answer whose content is not at stake.
Answered(kind, status) ==
    AnsweredWith(kind, status, IF kind = "response" THEN DefaultReply ELSE NoReply)

\* What the parser makes of a text: the members of the object, or a throw.
ParseOk(members) == [ok |-> TRUE, members |-> members]
ParseThrows == [ok |-> FALSE, members |-> <<>>]
IsPunctuation(token) == token \in {"{", "}", ":", ","}

\* The members of a JSON object text between its braces.
RECURSIVE ParseMembers(_)
ParseMembers(t) ==
    IF Len(t) < 3 THEN ParseThrows
    ELSE IF IsPunctuation(t[1]) \/ t[2] # ":" \/ IsPunctuation(t[3]) THEN ParseThrows
    ELSE IF Len(t) = 3 THEN ParseOk(<< <<t[1], t[3]>> >>)
    ELSE IF t[4] # "," THEN ParseThrows
    ELSE LET rest == ParseMembers(SubSeq(t, 5, Len(t)))
         IN IF rest.ok THEN ParseOk(<< <<t[1], t[3]>> >> \o rest.members) ELSE ParseThrows

\* this._parseJson(text): JSON.parse of the text of an object of strings.
parseJson(t) ==
    IF Len(t) < 2 \/ t[1] # "{" \/ t[Len(t)] # "}" THEN ParseThrows
    ELSE IF Len(t) = 2 THEN ParseOk(<<>>)
    ELSE ParseMembers(SubSeq(t, 2, Len(t) - 1))

\* contentType.includes('application/json')
IncludesJson(contentType) ==
    contentType \in {"application/json", "application/json; charset=utf-8"}

\* The decoding with the parser's throw leaving the try block of doFetch.
Decode_Throws(r) ==
    IF IncludesJson(r.contentType) /\ r.text # <<>>
      THEN LET p == parseJson(r.text)
           IN IF p.ok THEN [ok |-> TRUE, body |-> Parsed(p.members)]
                      ELSE [ok |-> FALSE, body |-> Raw(r.text)]
      ELSE [ok |-> TRUE, body |-> Raw(r.text)]

\* doFetch decoding the text it has read: responseBody, and whether the
\* statement completes without throwing.
Decode(r) ==
    IF IncludesJson(r.contentType) /\ r.text # <<>>
      THEN LET p == parseJson(r.text)
           IN IF p.ok THEN [ok |-> TRUE, body |-> Parsed(p.members)]
                      ELSE [ok |-> TRUE, body |-> Raw(r.text)]
      ELSE [ok |-> TRUE, body |-> Raw(r.text)]

\* ------------------------------------------------------------ retry policy

\* this._retry.methods ?? DEFAULT_RETRY_METHODS (no methods option is given)
retryMethods == DEFAULT_RETRY_METHODS
\* this._retry.statusCodes ?? DEFAULT_RETRY_STATUS_CODES (no statusCodes option)
retryStatusCodes == DEFAULT_RETRY_STATUS_CODES
\* The delay function of the documentation's retry example.
CustomDelay(n) == Min(1000 * Pow2(n), 30000)

\* The configured delay function never consulted.
retryDelay_DefaultOnly(n) == defaultRetryDelay(n)

\* this._retry.delay ?? defaultRetryDelay
retryDelay(n) == IF customDelay THEN CustomDelay(n) ELSE defaultRetryDelay(n)

\* A missing limit taken for the retry limit of two.
RetryLimitOf_DefaultTwo(opt) == IF opt = <<>> THEN 2 ELSE opt[1]

\* this._retry.limit ?? 0
RetryLimitOf(opt) == IF opt = <<>> THEN 0 ELSE opt[1]

\* The for-loop condition of execute.
LoopContinues(att) == att <= retryLimit

\* The catch block giving up one attempt early.
ShouldRethrow_OneFewer(err, att) ==
    \/ method \notin retryMethods
    \/ err.kind = "TimeoutError"
    \/ (err.kind = "HTTPError" /\ err.status \notin retryStatusCodes)
    \/ att + 1 >= retryLimit

\* The catch block without the retry-methods test.
ShouldRethrow_AnyMethod(err, att) ==
    \/ err.kind = "TimeoutError"
    \/ (err.kind = "HTTPError" /\ err.status \notin retryStatusCodes)
    \/ att >= retryLimit

\* The catch block without the status-code test.
ShouldRethrow_AnyStatus(err, att) ==
    \/ method \notin retryMethods
    \/ err.kind = "TimeoutError"
    \/ att >= retryLimit

\* The catch block without the TimeoutError test.
ShouldRethrow_RetryTimeout(err, att) ==
    \/ method \notin retryMethods
    \/ (err.kind = "HTTPError" /\ err.status \notin retryStatusCodes)
    \/ att >= retryLimit

\* The catch block retrying HTTP errors only.
ShouldRethrow_OnlyHttpRetried(err, att) ==
    \/ method \notin retryMethods
    \/ err.kind # "HTTPError"
    \/ err.status \notin retryStatusCodes
    \/ att >= retryLimit

\* The catch block giving up one attempt late.
ShouldRethrow_Late(err, att) ==
    \/ method \notin retryMethods
    \/ err.kind = "TimeoutError"
    \/ (err.kind = "HTTPError" /\ err.status \notin retryStatusCodes)
    \/ att > retryLimit

\* The four throw statements of the catch block of execute, in order.
ShouldRethrow(err, att) ==
    \/ method \notin retryMethods
    \/ err.kind = "TimeoutError"
    \/ (err.kind = "HTTPError" /\ err.status \notin retryStatusCodes)
    \/ att >= retryLimit

\* The catch clause rethrowing what it caught, AbortError included.
MapCatch_NoMapping(err) ==
    IF err.kind = "undefined" THEN TypeError(err.att) ELSE err

\* The catch clause mapping AbortError only when a timeout is configured.
MapCatch_TimerOnly(err) ==
    IF err.kind = "undefined" THEN TypeError(err.att)
    ELSE IF err.kind = "AbortError" /\ timeoutMs # 0 THEN TimeoutError(err.att)
    ELSE err

\* The catch clause of doFetch.  Reading .name of a thrown undefined throws
\* a TypeError out of the clause.
MapCatch(err) ==
    IF err.kind = "undefined" THEN TypeError(err.att)
    ELSE IF err.kind = "AbortError" THEN TimeoutError(err.att)
    ELSE err

\* The finally clause of doFetch: clearTimeout(timeoutId), if a timer was armed.
Finally(tm, att) == SelectSeq(tm, LAMBDA t : t # att)

\* if (timeoutMs) timeoutId = setTimeout(...)
ArmTimer(tm, att) == IF timeoutMs # 0 THEN Append(tm, att) ELSE tm

\* if (this._externalSignal) this._externalSignal.addEventListener('abort', ...)
AddListener(n) == IF hasExternal THEN n + 1 ELSE n

\* The after-response list taken for empty.
NumHooks_NoAfterResponse(cat) == IF cat = "afterResponse" THEN 0 ELSE nHooks

\* this._hooks[cat].length: every category holds the same number of hooks;
\* what each hook does is chosen anew at each invocation.
NumHooks(cat) == nHooks

InFlight == pc \in {"fetching", "reading"}

\* --------------------------------------------------------- pieces of steps

\* The last transport call is answered with a.
AnswerWith(kind, status, reply) ==
    /\ lastAnswer' = AnsweredWith(kind, status, reply)
    \* a response is read at once: const text = await fetchResponse.text()
    /\ bodyUsed' = (bodyUsed \/ kind = "response")
    /\ UNCHANGED <<calls, prevAnswers>>

Answer(kind, status) == AnswerWith(kind, status, NoReply)

\* this._customFetch(url, {..., body, signal}) is invoked with the prepared
\* url and body p.
CallFetch(aborted, p) ==
    /\ pc' = "fetching"
    /\ hookIdx' = 0
    /\ calls' = calls + 1
    /\ lastAnswer' = Answered("inflight", 0)
    /\ bodyUsed' = FALSE
    /\ prevAnswers' = IF calls = 0 THEN {} ELSE prevAnswers \cup {lastAnswer}
    /\ abortSeen' = IF abortSeen = "yes" /\ ~aborted THEN "called" ELSE abortSeen
    /\ sent' = sent \cup {p}

\* A for-of loop over a hook list skipping every other hook.
NextHook_Skip(i) == i + 2

\* A for-of loop over a hook list stepping to the hook after hook i.
NextHook(i) == i + 1

\* The event that opens attempt att: the first attempt follows nothing,
\* a later one the end of the backoff wait of the attempt before.
Resumed(att) == IF att > 0 THEN <<Ev("return", "backoff", 0)>> ELSE <<>>

\* doFetch from its first line to its first suspension point.
BeginAttempt(att) ==
    /\ attempt' = att
    /\ prepared' = Prepare(body, query)
    /\ encodes' = encodes + StringifyCalls(body, ContentType(headers), formFields, attachments)
    /\ headers' = EncodeHeaders(body, headers, formFields, attachments)
    /\ ctrl' = att
    /\ ctrlAborted' = FALSE
    /\ listeners' = AddListener(listeners)
    /\ timers' = ArmTimer(timers, att)
    /\ causes' = {}
    \* the next catch overwrites lastError before anything reads it
    /\ lastError' = NullError
    /\ fetchStatus' = 0
    /\ response' = NoResponse
    /\ error' = NoError
    /\ lastReplace' = NoReplace
    /\ IF NumHooks("beforeRequest") > 0
         THEN /\ pc' = "beforeRequest"
              /\ hookIdx' = 1
              /\ log' = Resumed(att) \o <<Ev("call", "beforeRequest", 1)>>
              /\ UNCHANGED <<callVars, abortSeen, sent>>
         ELSE /\ CallFetch(FALSE, Prepare(body, query))
              /\ log' = Resumed(att) \o <<Ev("call", "transport", 0)>>

\* The locals of doFetch go out of scope.
EndAttempt ==
    /\ fetchStatus' = 0
    /\ response' = NoResponse
    /\ error' = NoError

\* execute settles.
Settle(o) ==
    /\ pc' = "settled"
    /\ hookIdx' = 0
    /\ outcome' = o

\* doFetch returns resp to its caller: execute returns it in turn, blob and
\* arrayBuffer go on to read response._response.
Return(resp) ==
    IF entry = "blob"
      THEN /\ pc' = "binary"
           /\ hookIdx' = 0
           /\ UNCHANGED outcome
      ELSE Settle(Resolved(resp))

\* The loop index passed as it stands.
RetryNumber_Index(att) == att

\* attempt + 1: the number handed to the before-retry hooks and to the
\* delay function
RetryNumber(att) == att + 1

\* The backoff started without waiting.
StartBackoff_NoWait ==
    /\ pc' = "backoff"
    /\ hookIdx' = 0
    /\ delays' = delays
    /\ UNCHANGED outcome

\* const delay = retryDelay(attempt + 1); await new Promise(setTimeout)
StartBackoff ==
    /\ pc' = "backoff"
    /\ hookIdx' = 0
    /\ delays' = Append(delays, retryDelay(RetryNumber(attempt)))
    /\ UNCHANGED outcome

\* The catch block of execute, for the error err that doFetch rejected with;
\* evs are the events of the step that led to it.
Catch(err, evs) ==
    /\ lastError' = err
    /\ UNCHANGED attempt
    /\ IF ShouldRethrow(err, attempt)
         THEN /\ Settle(Rejected(err))
              /\ log' = log \o evs
              /\ UNCHANGED <<retryCalls, delays>>
         ELSE IF NumHooks("beforeRetry") > 0
           THEN /\ pc' = "beforeRetry"
                /\ hookIdx' = 1
                /\ retryCalls' = Append(retryCalls,
                       [hook |-> 1, n |-> RetryNumber(attempt), att |-> attempt])
                /\ log' = log \o evs \o <<Ev("call", "beforeRetry", 1)>>
                /\ UNCHANGED <<delays, outcome>>
           ELSE /\ StartBackoff
                /\ log' = log \o evs \o <<Ev("call", "backoff", 0)>>
                /\ UNCHANGED retryCalls

\* blob and arrayBuffer going through the catch block of execute.
Rejects_ViaCatch(err, evs) == Catch(err, evs)

\* doFetch rejects with err: into the catch block of execute, or to the
\* caller of blob and arrayBuffer, which await doFetch with no try around it.
Rejects(err, evs) ==
    IF entry = "blob"
      THEN /\ Settle(Rejected(err))
           /\ log' = log \o evs
           /\ UNCHANGED <<attempt, lastError, retryCalls, delays>>
      ELSE Catch(err, evs)

\* An error thrown inside the try block of doFetch.
ThrowInTry(err, evs) ==
    /\ timers' = Finally(timers, attempt)
    /\ EndAttempt
    /\ Rejects(MapCatch(err), evs)

\* An error thrown by doFetch before its try block is entered.
ThrowBeforeTry(err, evs) ==
    /\ UNCHANGED timers
    /\ EndAttempt
    /\ Rejects(err, evs)

\* The HTTP-error test made on the working response.
TestedStatus_Working(resp) == resp.status

\* fetchResponse.ok: the status the HTTP-error test looks at is the one of
\* the transport's own response, whatever the working response resp is
TestedStatus(resp) == fetchStatus

\* The HTTP-error test throwing even when _throwHttpErrors is false.
ThrowsHttpError_Always(status) == ~Ok(status)

\* if (this._throwHttpErrors && !fetchResponse.ok)
ThrowsHttpError(status) == throwHttpErrors /\ ~Ok(status)

\* The result built from the transport's own response, not the working one.
Result_Original(resp) == Response(fetchStatus, attempt)

\* The response doFetch returns, or embeds in the HTTPError it throws.
Result(resp) == resp

\* doFetch after the after-response loop, with working response resp: the
\* HTTP-error test.
Conclude(resp, evs) ==
    IF ThrowsHttpError(TestedStatus(resp))
      THEN IF NumHooks("beforeError") > 0
             THEN /\ pc' = "beforeError"
                  /\ hookIdx' = 1
                  /\ response' = NoResponse
                  /\ error' = HTTPError(Result(resp))
                  /\ log' = log \o evs \o <<Ev("call", "check", 0), Ev("call", "beforeError", 1)>>
                  /\ UNCHANGED <<attempt, fetchStatus, timers, lastError, retryCalls, delays, outcome>>
             ELSE ThrowInTry(HTTPError(Result(resp)), evs \o <<Ev("call", "check", 0)>>)
      ELSE /\ timers' = Finally(timers, attempt)
           /\ EndAttempt
           /\ Return(Result(resp))
           /\ log' = log \o evs \o <<Ev("call", "check", 0)>>
           /\ UNCHANGED <<attempt, lastError, retryCalls, delays>>

\* ----------------------------------------------------------------- Init

\* The request the executions of the other specifications are given:
\* send({a: '1'}) on a new request, no query, form field or attachment.
DefaultContent ==
    /\ body = Obj(InitialBody)
    /\ headers = sendHeaders(<<>>, Obj(InitialBody))
    /\ query = InitialQuery
    /\ formFields = <<>>
    /\ attachments = <<>>
    /\ fieldNames = <<>>

\* No execution of the request has started.
NotStarted ==
    /\ other = OtherIdle
    /\ pc = "idle"
    /\ attempt = 0
    /\ hookIdx = 0
    /\ fetchStatus = 0
    /\ response = NoResponse
    /\ error = NoError
    /\ prepared = NotPrepared
    /\ ctrl = -1
    /\ ctrlAborted = FALSE
    /\ timers = <<>>
    /\ listeners = 0
    /\ calls = 0
    /\ lastAnswer = Answered("none", 0)
    /\ prevAnswers = {}
    /\ bodyUsed = FALSE
    /\ lastError = NullError
    /\ retryCalls = <<>>
    /\ delays = <<>>
    /\ outcome = Pending
    /\ causes = {}
    /\ hooksPassive = TRUE
    /\ abortSeen = "no"
    /\ log = <<>>
    /\ lastReplace = NoReplace
    /\ encodes = 0
    /\ sent = {}
    /\ endPc = "none"
    /\ callbacks = <<>>

\* The state of a Request after construction and configuration.
Constructed ==
    /\ DefaultContent
    /\ NotStarted

Init ==
    /\ method \in Methods
    /\ limitOption \in {<<>>} \cup {<<n>> : n \in -1 .. MaxRetry}
    /\ retryLimit = RetryLimitOf(limitOption)
    /\ throwHttpErrors \in BOOLEAN
    /\ timeoutMs \in {0, TimeoutMs}
    /\ hasExternal \in BOOLEAN
    /\ nHooks \in 0 .. MaxHooks
    /\ customDelay = FALSE
    /\ entry = "execute"
    /\ externalAborted \in (IF hasExternal THEN BOOLEAN ELSE {FALSE})
    /\ Constructed

\* -------------------------------------------------------------- execution

\* then(), catch(), finally(), end(), json() or text() calls execute().
Execute ==
    /\ pc = "idle"
    /\ entry = "execute"
    /\ IF LoopContinues(0)
         THEN /\ BeginAttempt(0)
              /\ UNCHANGED <<retryCalls, delays, outcome>>
         ELSE /\ Settle(Rejected(NullError))
              /\ UNCHANGED <<attempt, fetchStatus, response, error, prepared, ctrl, ctrlAborted,
                             timers, listeners, callVars, lastError, retryCalls, delays,
                             causes, abortSeen, log, lastReplace, encoderVars, sent>>
    /\ UNCHANGED <<cfgVars, other, reqVars, endVars, externalAborted, hooksPassive>>

\* blob() or arrayBuffer(): const response = await this.doFetch()
Blob ==
    /\ pc = "idle"
    /\ entry = "blob"
    /\ BeginAttempt(0)
    /\ UNCHANGED <<cfgVars, other, reqVars, endVars, externalAborted, hooksPassive, retryCalls,
                   delays, outcome>>

\* fetchResponse.blob() or .arrayBuffer(): a body that was read already
\* cannot be read again, the promise rejects with a TypeError.
ReadBinary(used, status, att) ==
    IF used THEN Rejected(TypeError(att)) ELSE Resolved(Response(status, att))

\* return response._response.blob() / .arrayBuffer()
BlobRead ==
    /\ pc = "binary"
    /\ Settle(ReadBinary(bodyUsed, lastAnswer.status, attempt))
    /\ UNCHANGED <<cfgVars, other, reqVars, endVars, attempt, fetchStatus, response, error, prepared,
                   cancelVars, callVars, lastError, retryCalls, delays, causes, hooksPassive,
                   abortSeen, log, lastReplace, encoderVars, sent>>

\* The before-request loop after hook hookIdx has returned; evs are the
\* events of the hook's run.
BeforeRequestNext(evs) ==
    /\ pc = "beforeRequest"
    /\ IF hookIdx < NumHooks("beforeRequest")
         THEN /\ hookIdx' = NextHook(hookIdx)
              /\ log' = log \o evs \o <<Ev("return", "beforeRequest", hookIdx),
                                        Ev("call", "beforeRequest", NextHook(hookIdx))>>
              /\ UNCHANGED <<pc, callVars, abortSeen, sent>>
         ELSE /\ CallFetch(ctrlAborted, prepared)
              /\ log' = log \o evs \o <<Ev("return", "beforeRequest", hookIdx),
                                        Ev("call", "transport", 0)>>
    /\ UNCHANGED <<cfgVars, other, endVars, attempt, fetchStatus, response, error, prepared,
                   cancelVars, lastError, retryCalls, delays, outcome, causes, hooksPassive,
                   lastReplace, encodes>>

\* The awaited before-request hook returns.
BeforeRequestReturn ==
    /\ BeforeRequestNext(<<>>)
    /\ UNCHANGED <<reqVars, headers>>

\* The awaited before-request hook returns, having called send() and query()
\* on the request it was given.
BeforeRequestEdit ==
    /\ BeforeRequestNext(<<Ev("edit", "beforeRequest", hookIdx)>>)
    /\ body' = send(body, Obj(EditBody))
    /\ headers' = sendHeaders(headers, Obj(EditBody))
    /\ query' = setQuery(query, EditQuery)
    /\ UNCHANGED <<formFields, attachments, fieldNames>>

\* The awaited before-request hook throws (or its promise rejects).
BeforeRequestThrow ==
    /\ pc = "beforeRequest"
    /\ ThrowBeforeTry(HookError("beforeRequestError", attempt, hookIdx),
                      <<Ev("throw", "beforeRequest", hookIdx)>>)
    /\ hooksPassive' = FALSE
    /\ UNCHANGED <<cfgVars, other, reqVars, endVars, prepared, ctrl, ctrlAborted, listeners,
                   externalAborted, callVars, causes, abortSeen, lastReplace, encoderVars, sent>>

\* The transport resolves the fetch promise with a response of status s and
\* content r.
TransportRespondWith(s, r) ==
    /\ pc = "fetching"
    /\ ~ctrlAborted
    /\ pc' = "reading"
    /\ fetchStatus' = s
    /\ AnswerWith("response", s, r)
    /\ log' = log \o <<Ev("return", "transport", 0)>>
    /\ UNCHANGED <<cfgVars, other, reqVars, endVars, attempt, hookIdx, response, error, prepared,
                   cancelVars, lastError, retryCalls, delays, outcome, causes, hooksPassive,
                   abortSeen, lastReplace, encoderVars, sent>>

\* The transport resolves the fetch promise with a response of status s.
TransportRespond(s) == TransportRespondWith(s, DefaultReply)

\* The transport rejects (fetch or text()) with a network failure.
TransportFail ==
    /\ InFlight
    /\ ~ctrlAborted
    /\ Answer("neterr", 0)
    /\ ThrowInTry(TransportError(attempt), <<Ev("throw", "transport", 0)>>)
    /\ UNCHANGED <<cfgVars, other, reqVars, endVars, prepared, ctrl, ctrlAborted, listeners,
                   externalAborted, causes, hooksPassive, abortSeen, lastReplace, encoderVars, sent>>

\* The transport observes its aborted signal: fetch or text() rejects with
\* an error named AbortError.
TransportAbort ==
    /\ InFlight
    /\ ctrlAborted
    /\ Answer("abort", 0)
    /\ ThrowInTry(AbortError(attempt), <<Ev("throw", "transport", 0)>>)
    /\ UNCHANGED <<cfgVars, other, reqVars, endVars, prepared, ctrl, ctrlAborted, listeners,
                   externalAborted, causes, hooksPassive, abortSeen, lastReplace, encoderVars, sent>>

\* fetchResponse.text() resolves; the Response is built.
ReadDone ==
    /\ pc = "reading"
    /\ ~ctrlAborted
    /\ IF ~Decode(lastAnswer.reply).ok
         THEN ThrowInTry(SyntaxError(attempt), <<Ev("throw", "transport", 0)>>)
       ELSE IF NumHooks("afterResponse") > 0
         THEN /\ pc' = "afterResponse"
              /\ hookIdx' = 1
              /\ response' = ResponseOf(fetchStatus, attempt, Decode(lastAnswer.reply).body)
              /\ log' = Append(log, Ev("call", "afterResponse", 1))
              /\ UNCHANGED <<attempt, fetchStatus, error, timers, lastError, retryCalls,
                             delays, outcome>>
         ELSE Conclude(ResponseOf(fetchStatus, attempt, Decode(lastAnswer.reply).body), <<>>)
    /\ UNCHANGED <<cfgVars, other, reqVars, endVars, prepared, ctrl, ctrlAborted, listeners,
                   externalAborted, callVars, causes, hooksPassive, abortSeen, lastReplace,
                   encoderVars, sent>>

\* The after-response loop goes on with working response resp.
AfterResponseNext(resp) ==
    IF hookIdx < NumHooks("afterResponse")
      THEN /\ hookIdx' = NextHook(hookIdx)
           /\ response' = resp
           /\ log' = log \o <<Ev("return", "afterResponse", hookIdx),
                              Ev("call", "afterResponse", NextHook(hookIdx))>>
           /\ UNCHANGED <<pc, attempt, fetchStatus, error, timers, lastError, retryCalls,
                          delays, outcome>>
      ELSE Conclude(resp, <<Ev("return", "afterResponse", hookIdx)>>)

\* The awaited after-response hook returns nothing.
AfterResponseReturn ==
    /\ pc = "afterResponse"
    /\ AfterResponseNext(response)
    /\ UNCHANGED <<cfgVars, other, reqVars, endVars, prepared, ctrl, ctrlAborted, listeners,
                   externalAborted, callVars, causes, hooksPassive, abortSeen, lastReplace,
                   encoderVars, sent>>

\* The awaited after-response hook returns a response of status s.
AfterResponseReplace(s) ==
    /\ pc = "afterResponse"
    /\ AfterResponseNext(Replacement(s, attempt, hookIdx))
    /\ lastReplace' = [hook |-> hookIdx, status |-> s]
    /\ hooksPassive' = FALSE
    /\ UNCHANGED <<cfgVars, other, reqVars, endVars, prepared, ctrl, ctrlAborted, listeners,
                   externalAborted, callVars, causes, abortSeen, encoderVars, sent>>

\* The awaited after-response hook throws.
AfterResponseThrow ==
    /\ pc = "afterResponse"
    /\ ThrowInTry(HookError("afterResponseError", attempt, hookIdx),
                  <<Ev("throw", "afterResponse", hookIdx)>>)
    /\ lastReplace' = NoReplace
    /\ hooksPassive' = FALSE
    /\ UNCHANGED <<cfgVars, other, reqVars, endVars, prepared, ctrl, ctrlAborted, listeners,
                   externalAborted, callVars, causes, abortSeen, encoderVars, sent>>

\* What a before-error hook given err returns.
BeforeErrorResult(how, err) ==
    CASE how = "same" -> err
      [] how = "custom" -> CustomError(attempt, hookIdx)
      [] how = "nothing" -> Undefined(attempt, hookIdx)

\* The awaited before-error hook returns: error = await hook(error).
BeforeErrorReturn(how) ==
    /\ pc = "beforeError"
    /\ IF hookIdx < NumHooks("beforeError")
         THEN /\ hookIdx' = NextHook(hookIdx)
              /\ error' = BeforeErrorResult(how, error)
              /\ log' = log \o <<Ev("return", "beforeError", hookIdx),
                                 Ev("call", "beforeError", NextHook(hookIdx))>>
              /\ UNCHANGED <<pc, attempt, fetchStatus, response, timers, lastError,
                             retryCalls, delays, outcome>>
         ELSE ThrowInTry(BeforeErrorResult(how, error),
                         <<Ev("return", "beforeError", hookIdx)>>)
    /\ lastReplace' = IF how = "same" THEN lastReplace ELSE NoReplace
    /\ hooksPassive' = (hooksPassive /\ how = "same")
    /\ UNCHANGED <<cfgVars, other, reqVars, endVars, prepared, ctrl, ctrlAborted, listeners,
                   externalAborted, callVars, causes, abortSeen, encoderVars, sent>>

\* The awaited before-error hook throws.
BeforeErrorThrow ==
    /\ pc = "beforeError"
    /\ ThrowInTry(HookError("beforeErrorError", attempt, hookIdx),
                  <<Ev("throw", "beforeError", hookIdx)>>)
    /\ lastReplace' = NoReplace
    /\ hooksPassive' = FALSE
    /\ UNCHANGED <<cfgVars, other, reqVars, endVars, prepared, ctrl, ctrlAborted, listeners,
                   externalAborted, callVars, causes, abortSeen, encoderVars, sent>>

\* The awaited before-retry hook returns.
BeforeRetryReturn ==
    /\ pc = "beforeRetry"
    /\ IF hookIdx < NumHooks("beforeRetry")
         THEN /\ hookIdx' = NextHook(hookIdx)
              /\ retryCalls' = Append(retryCalls,
                     [hook |-> NextHook(hookIdx), n |-> RetryNumber(attempt),
                      att |-> attempt])
              /\ log' = log \o <<Ev("return", "beforeRetry", hookIdx),
                                 Ev("call", "beforeRetry", NextHook(hookIdx))>>
              /\ UNCHANGED <<pc, delays, outcome>>
         ELSE /\ StartBackoff
              /\ log' = log \o <<Ev("return", "beforeRetry", hookIdx),
                                 Ev("call", "backoff", 0)>>
              /\ UNCHANGED retryCalls
    /\ UNCHANGED <<cfgVars, other, reqVars, endVars, attempt, fetchStatus, response, error, prepared,
                   cancelVars, callVars, lastError, causes, hooksPassive, abortSeen,
                   lastReplace, encoderVars, sent>>

\* The awaited before-retry hook throws: the error leaves the catch block.
BeforeRetryThrow ==
    /\ pc = "beforeRetry"
    /\ Settle(Rejected(HookError("beforeRetryError", attempt, hookIdx)))
    /\ log' = Append(log, Ev("throw", "beforeRetry", hookIdx))
    /\ hooksPassive' = FALSE
    /\ UNCHANGED <<cfgVars, other, reqVars, endVars, attempt, fetchStatus, response, error, prepared,
                   cancelVars, callVars, lastError, retryCalls, delays, causes, abortSeen,
                   lastReplace, encoderVars, sent>>

\* The backoff timer fires: attempt++, the loop condition, the next doFetch.
BackoffElapsed ==
    /\ pc = "backoff"
    /\ IF LoopContinues(attempt + 1)
         THEN /\ BeginAttempt(attempt + 1)
              /\ UNCHANGED outcome
         ELSE /\ Settle(Rejected(lastError))
              /\ attempt' = attempt + 1
              /\ UNCHANGED <<lastError, fetchStatus, response, error, prepared, ctrl,
                             ctrlAborted, timers, listeners, callVars, causes, abortSeen,
                             log, lastReplace, encoderVars, sent>>
    /\ UNCHANGED <<cfgVars, other, reqVars, endVars, externalAborted, retryCalls, delays,
                   hooksPassive>>

\* ------------------------------------------------------------ end(callback)

\* end(callback) is this.execute().then(res => callback(null, res))
\*                                .catch(err => callback(err)).
\* execute() has settled: the handler for its outcome runs and invokes the
\* callback.  A rejection passes through then() to the catch() handler.
EndSettled ==
    /\ pc = "settled"
    /\ endPc = "none"
    /\ IF outcome.state = "resolved"
         THEN /\ endPc' = "then"
              /\ callbacks' = Append(callbacks, "response")
         ELSE /\ endPc' = "catch"
              /\ callbacks' = Append(callbacks, "error")
    /\ UNCHANGED <<cfgVars, other, reqVars, runVars, cancelVars, histVars>>

\* The callback returns: the promise of the chain resolves.
EndCallbackReturn ==
    /\ endPc \in {"then", "catch"}
    /\ endPc' = "done"
    /\ UNCHANGED <<cfgVars, other, reqVars, runVars, cancelVars, histVars, callbacks>>

\* The callback throws.  Thrown in the then() handler, the error rejects the
\* promise catch() was called on, whose handler invokes the callback with
\* it; thrown in the catch() handler, it rejects the promise end() discards.
EndCallbackThrow ==
    /\ endPc \in {"then", "catch"}
    /\ IF endPc = "then"
         THEN /\ endPc' = "catch"
              /\ callbacks' = Append(callbacks, "error")
         ELSE /\ endPc' = "unhandled"
              /\ UNCHANGED callbacks
    /\ UNCHANGED <<cfgVars, other, reqVars, runVars, cancelVars, histVars>>

\* ----------------------------------------------------------- cancellation

\* A signal that a second abort() call resets.
AbortController_Toggle(cause) ==
    /\ ctrlAborted' = (~ctrlAborted /\ ctrl >= 0)
    /\ other' = [other EXCEPT !.aborted = (@ \/ ctrl = OtherCtrl)]
    /\ causes' = IF InFlight /\ ctrl >= 0 THEN causes \cup {cause} ELSE causes
    /\ UNCHANGED ctrl

\* this._abortController?.abort(), as the timer, the listener and abort() call it.
AbortController(cause) ==
    /\ ctrlAborted' = (ctrlAborted \/ ctrl >= 0)
    /\ other' = [other EXCEPT !.aborted = (@ \/ ctrl = OtherCtrl)]
    /\ causes' = IF InFlight /\ ctrl >= 0 THEN causes \cup {cause} ELSE causes
    /\ UNCHANGED ctrl

\* The execution has started and has not settled.  abort() and the external
\* signal are followed while it runs: before it starts there is no controller
\* to abort (an external signal aborted by then is an initial state), and
\* after it has settled nothing reads the signal any more.
Running == pc \notin {"idle", "settled"}

\* The caller calls abort() on the running request.
Abort ==
    /\ Running
    /\ AbortController("abort")
    /\ abortSeen' = IF abortSeen = "no" THEN "yes" ELSE abortSeen
    /\ UNCHANGED <<cfgVars, reqVars, endVars, runVars, timers, listeners, externalAborted,
                   callVars, lastError, retryCalls, delays, outcome, hooksPassive,
                   log, lastReplace, encoderVars, sent>>

\* The external signal aborts: its abort event runs every listener added to it.
ExternalAbort ==
    /\ Running
    /\ hasExternal
    /\ ~externalAborted
    /\ externalAborted' = TRUE
    /\ IF listeners > 0
         THEN AbortController("external")
         ELSE UNCHANGED <<ctrl, ctrlAborted, causes, other>>
    /\ UNCHANGED <<cfgVars, reqVars, endVars, runVars, timers, listeners, callVars,
                   lastError, retryCalls, delays, outcome, hooksPassive, abortSeen,
                   log, lastReplace, encoderVars, sent>>

\* The oldest pending timeout timer expires and runs its callback.
TimerFire ==
    /\ timers # <<>>
    /\ timers' = Tail(timers)
    /\ AbortController("timer")
    /\ UNCHANGED <<cfgVars, reqVars, endVars, runVars, listeners, externalAborted,
                   callVars, lastError, retryCalls, delays, outcome, hooksPassive, abortSeen,
                   log, lastReplace, encoderVars, sent>>

\* ---------------------------------------- the same request, consumed twice

\* A second consumption handed the promise of the first one, once there is one.
OtherStarts_Memoized ==
    IF pc = "idle"
      THEN [pc |-> "fetching", aborted |-> FALSE, outcome |-> "pending", calls |-> 1]
      ELSE [pc |-> "fetching", aborted |-> FALSE, outcome |-> "pending", calls |-> 0]

\* return this.execute().then(...), const res = await this.execute(): every
\* consumption calls execute, which calls doFetch, which calls the transport
OtherStarts == [pc |-> "fetching", aborted |-> FALSE, outcome |-> "pending", calls |-> 1]

\* The Request is consumed a second time (then(), json(), ... once more):
\* the other execution runs execute and, its before-request hooks returning,
\* doFetch up to its transport call.  With a negative retry limit its loop
\* is not entered either, and it rejects with the initial lastError.
OtherExecute ==
    /\ other.pc = "idle"
    /\ IF LoopContinues(0)
         THEN /\ other' = OtherStarts
              /\ ctrl' = OtherCtrl
              /\ timers' = ArmTimer(timers, OtherCtrl)
              /\ listeners' = AddListener(listeners)
         ELSE /\ other' = [other EXCEPT !.pc = "settled", !.outcome = "null"]
              /\ UNCHANGED <<ctrl, timers, listeners>>
    /\ UNCHANGED <<cfgVars, reqVars, endVars, runVars, ctrlAborted, externalAborted, histVars>>

\* The other execution's transport call is answered with a 2xx response:
\* it resolves, and its finally block clears its timer.
OtherRespond ==
    /\ other.pc = "fetching"
    /\ ~other.aborted
    /\ other' = [other EXCEPT !.pc = "settled", !.outcome = "resolved"]
    /\ timers' = Finally(timers, OtherCtrl)
    /\ UNCHANGED <<cfgVars, reqVars, endVars, runVars, ctrl, ctrlAborted, listeners,
                   externalAborted, histVars>>

\* The other execution's transport call observes its aborted signal: it
\* rejects with TimeoutError, and its finally block clears its timer.
OtherAbort ==
    /\ other.pc = "fetching"
    /\ other.aborted
    /\ other' = [other EXCEPT !.pc = "settled", !.outcome = "TimeoutError"]
    /\ timers' = Finally(timers, OtherCtrl)
    /\ UNCHANGED <<cfgVars, reqVars, endVars, runVars, ctrl, ctrlAborted, listeners,
                   externalAborted, histVars>>

\* ----------------------------------------------------------- specification

Next ==
    \/ Execute
    \/ BeforeRequestReturn
    \/ BeforeRequestThrow
    \/ \E s \in Statuses : TransportRespond(s)
    \/ TransportFail
    \/ TransportAbort
    \/ ReadDone
    \/ AfterResponseReturn
    \/ \E s \in ReplacementStatuses : AfterResponseReplace(s)
    \/ AfterResponseThrow
    \/ \E how \in {"same", "custom", "nothing"} : BeforeErrorReturn(how)
    \/ BeforeErrorThrow
    \/ BeforeRetryReturn
    \/ BeforeRetryThrow
    \/ BackoffElapsed
    \/ Abort
    \/ ExternalAbort
    \/ TimerFire

Spec == Init /\ [][Next]_vars

\* Executions that follow the backoff schedule up to its cap: a retryable
\* method, no hooks, no cancellation, retry limits up to MaxBackoffRetry,
\* with and without a configured delay function.
InitBackoff ==
    /\ method = "GET"
    /\ limitOption \in {<<n>> : n \in 0 .. MaxBackoffRetry}
    /\ retryLimit = RetryLimitOf(limitOption)
    /\ throwHttpErrors = TRUE
    /\ timeoutMs = 0
    /\ hasExternal = FALSE
    /\ nHooks = 0
    /\ customDelay \in BOOLEAN
    /\ entry = "execute"
    /\ externalAborted = FALSE
    /\ Constructed

NextBackoff ==
    \/ Execute
    \/ \E s \in Statuses : TransportRespond(s)
    \/ TransportFail
    \/ ReadDone
    \/ BackoffElapsed

SpecBackoff == InitBackoff /\ [][NextBackoff]_vars

\* Executions together with the client code around them: before-request
\* hooks that edit the request they are given, and end(callback) consuming
\* the execution.  No timeout and no external signal are configured and
\* abort() is not called.
InitClient ==
    /\ method \in Methods
    /\ limitOption \in {<<n>> : n \in -1 .. MaxRetry}
    /\ retryLimit = RetryLimitOf(limitOption)
    /\ throwHttpErrors \in BOOLEAN
    /\ timeoutMs = 0
    /\ hasExternal = FALSE
    /\ nHooks \in 0 .. MaxHooks
    /\ customDelay = FALSE
    /\ entry = "execute"
    /\ externalAborted = FALSE
    /\ Constructed

NextClient ==
    \/ Execute
    \/ BeforeRequestReturn
    \/ BeforeRequestEdit
    \/ BeforeRequestThrow
    \/ \E s \in Statuses : TransportRespond(s)
    \/ TransportFail
    \/ ReadDone
    \/ AfterResponseReturn
    \/ \E s \in ReplacementStatuses : AfterResponseReplace(s)
    \/ AfterResponseThrow
    \/ \E how \in {"same", "custom", "nothing"} : BeforeErrorReturn(how)
    \/ BeforeErrorThrow
    \/ BeforeRetryReturn
    \/ BeforeRetryThrow
    \/ BackoffElapsed
    \/ EndSettled
    \/ EndCallbackReturn
    \/ EndCallbackThrow

SpecClient == InitClient /\ [][NextClient]_vars

\* A request consumed with blob() or arrayBuffer(), with hooks, without
\* timeout and external signal.
InitBinary ==
    /\ method \in Methods
    /\ limitOption \in {<<>>} \cup {<<n>> : n \in 0 .. MaxRetry}
    /\ retryLimit = RetryLimitOf(limitOption)
    /\ throwHttpErrors \in BOOLEAN
    /\ timeoutMs = 0
    /\ hasExternal = FALSE
    /\ nHooks \in 0 .. MaxHooks
    /\ customDelay = FALSE
    /\ entry = "blob"
    /\ externalAborted = FALSE
    /\ Constructed

NextBinary ==
    \/ Blob
    \/ BeforeRequestReturn
    \/ BeforeRequestThrow
    \/ \E s \in Statuses : TransportRespond(s)
    \/ TransportFail
    \/ ReadDone
    \/ AfterResponseReturn
    \/ \E s \in ReplacementStatuses : AfterResponseReplace(s)
    \/ AfterResponseThrow
    \/ \E how \in {"same", "custom", "nothing"} : BeforeErrorReturn(how)
    \/ BeforeErrorThrow
    \/ BlobRead

SpecBinary == InitBinary /\ [][NextBinary]_vars

\* A GET request with timeout(TimeoutMs) consumed twice, the second time
\* before, while or after the first execution runs.
InitTwice ==
    /\ method = "GET"
    /\ limitOption \in {<<-1>>, <<0>>, <<1>>}
    /\ retryLimit = RetryLimitOf(limitOption)
    /\ throwHttpErrors = TRUE
    /\ timeoutMs = TimeoutMs
    /\ hasExternal = FALSE
    /\ nHooks \in {0, 1}
    /\ customDelay = FALSE
    /\ entry = "execute"
    /\ externalAborted = FALSE
    /\ Constructed

NextTwice ==
    \/ Execute
    \/ OtherExecute
    \/ BeforeRequestReturn
    \/ BeforeRequestThrow
    \/ \E s \in Statuses : TransportRespond(s)
    \/ TransportFail
    \/ TransportAbort
    \/ ReadDone
    \/ AfterResponseReturn
    \/ BeforeErrorReturn("same")
    \/ BeforeRetryReturn
    \/ BackoffElapsed
    \/ TimerFire
    \/ OtherRespond
    \/ OtherAbort

SpecTwice == InitTwice /\ [][NextTwice]_vars

\* An execution with a retry limit N >= 0 whose awaited promises all
\* settle: the transport answers or fails, every hook returns or throws,
\* and every backoff timer fires.
InitLive ==
    /\ method \in Methods
    /\ limitOption \in {<<n>> : n \in 0 .. MaxRetry}
    /\ retryLimit = RetryLimitOf(limitOption)
    /\ throwHttpErrors = TRUE
    /\ timeoutMs = 0
    /\ hasExternal = FALSE
    /\ nHooks \in 0 .. MaxHooks
    /\ customDelay = FALSE
    /\ entry = "execute"
    /\ externalAborted = FALSE
    /\ Constructed

\* The steps of a started execution: each is the settling of the promise
\* the execution is awaiting.
Awaited ==
    \/ BeforeRequestReturn
    \/ BeforeRequestThrow
    \/ \E s \in Statuses : TransportRespond(s)
    \/ TransportFail
    \/ ReadDone
    \/ AfterResponseReturn
    \/ AfterResponseThrow
    \/ BeforeErrorReturn("same")
    \/ BeforeErrorThrow
    \/ BeforeRetryReturn
    \/ BeforeRetryThrow
    \/ BackoffElapsed

NextLive == Execute \/ Awaited

SpecLive == InitLive /\ [][NextLive]_vars /\ WF_vars(Awaited)

\* The sequences over S of length up to n.
SeqsUpTo(S, n) == UNION {[1 .. k -> S] : k \in 0 .. n}

\* The field(name, value) calls made on the request, in order.
RECURSIVE Fields(_)
Fields(fcalls) ==
    IF fcalls = <<>> THEN <<>>
    ELSE field(Fields(SubSeq(fcalls, 1, Len(fcalls) - 1)),
               fcalls[Len(fcalls)][1], fcalls[Len(fcalls)][2])

\* The names in calls, each at its first occurrence.
RECURSIVE FirstNames(_)
FirstNames(fcalls) ==
    IF fcalls = <<>> THEN <<>>
    ELSE LET before == FirstNames(SubSeq(fcalls, 1, Len(fcalls) - 1))
             name == fcalls[Len(fcalls)][1]
         IN IF \E i \in DOMAIN before : before[i] = name THEN before ELSE Append(before, name)

FormType == "application/x-www-form-urlencoded"

\* A PUT request with retry(1) built by new Request(method, url, {headers}),
\* then type(), send(), field() and attach() calls.
InitEncode ==
    /\ method = "PUT"
    /\ limitOption = <<1>>
    /\ retryLimit = RetryLimitOf(limitOption)
    /\ throwHttpErrors = TRUE
    /\ timeoutMs = 0
    /\ hasExternal = FALSE
    /\ nHooks \in {0, 1}
    /\ customDelay = FALSE
    /\ entry = "execute"
    /\ externalAborted = FALSE
    /\ \E oh \in { <<>>, << <<"Content-Type", FormType>> >>,
                     << <<"content-type", "text/plain">> >> },
          t \in {"", "application/json", FormType},
          data \in {Undefined_, Obj(InitialBody), Str("hello"), Num(42)} :
         /\ body = send(Undefined_, data)
         /\ headers = sendHeaders(IF t = "" THEN optionsHeaders(oh)
                                            ELSE type(optionsHeaders(oh), t), data)
    /\ query = InitialQuery
    /\ \E fcalls \in SeqsUpTo({<<"b", "x">>, <<"c", "y">>}, MaxFields) :
         /\ formFields = Fields(fcalls)
         /\ fieldNames = FirstNames(fcalls)
    \* attach() pushes: _attachments is the calls in their order
    /\ attachments \in SeqsUpTo({Attachment("f", "string", "x", ""),
                                  Attachment("g", "blob", "y", "g.bin")}, MaxAttachments)
    /\ NotStarted

NextEncode ==
    \/ Execute
    \/ BeforeRequestReturn
    \/ BeforeRequestEdit
    \/ \E s \in Statuses,
          r \in { DefaultReply, Reply("application/json", <<"{", "ok">>),
                  Reply("application/json", <<>>), Reply("text/plain", <<"{", "}">>) } :
         TransportRespondWith(s, r)
    \/ TransportFail
    \/ ReadDone
    \/ AfterResponseReturn
    \/ BeforeErrorReturn("same")
    \/ BeforeRetryReturn
    \/ BackoffElapsed

SpecEncode == InitEncode /\ [][NextEncode]_vars

\* ------------------------------------------------------------- properties

Settled == pc = "settled"

\* The transport answered with a response whose status is in the retryable set.
RetryableAnswer(a) == a.kind = "response" /\ a.status \in retryStatusCodes

\* How often before-retry hook h has been invoked.
BeforeRetryCount(h) == Cardinality({i \in DOMAIN retryCalls : retryCalls[i].hook = h})

RECURSIVE SumSeq(_)
SumSeq(q) == IF q = <<>> THEN 0 ELSE q[1] + SumSeq(Tail(q))

\* min(1000 * 2^(k-1), 30000), the documented default backoff before retry k.
ExpectedBackoff(k) == IF 1000 * 2^(k - 1) < 30000 THEN 1000 * 2^(k - 1) ELSE 30000

\* The failed attempt in progress was given up: no before-retry hook ran
\* for it and no backoff was started for it.
NoRetryOfThisAttempt ==
    /\ Len(delays) = attempt
    /\ \A i \in DOMAIN retryCalls : retryCalls[i].att < attempt

\* C1: with throw-on-HTTP-error enabled, a retryable method, retry limit
\* N >= 0, hooks that only observe and a transport that answers every call
\* with a retryable status, the execution never resolves and never makes
\* more than N+1 transport calls; once settled it has made exactly N+1
\* calls, invoked every before-retry hook exactly N times, and is rejected
\* with the HTTPError of the last attempt's response.
C1_ExhaustsRetryBudget ==
    ( /\ throwHttpErrors
      /\ method \in retryMethods
      /\ retryLimit >= 0
      /\ hooksPassive
      /\ calls >= 1
      /\ RetryableAnswer(lastAnswer)
      /\ \A a \in prevAnswers : RetryableAnswer(a) )
    => /\ calls <= retryLimit + 1
       /\ outcome.state # "resolved"
       /\ Settled =>
            /\ calls = retryLimit + 1
            /\ \A h \in 1 .. NumHooks("beforeRetry") : BeforeRetryCount(h) = retryLimit
            /\ outcome = Rejected(HTTPError(Response(lastAnswer.status, retryLimit)))

C1_Witness ==
    /\ Settled
    /\ throwHttpErrors /\ method \in retryMethods /\ hooksPassive
    /\ retryLimit = 2 /\ nHooks >= 1
    /\ calls = 3
    /\ RetryableAnswer(lastAnswer)
    /\ \A a \in prevAnswers : RetryableAnswer(a)
    /\ outcome.error.kind = "HTTPError"

\* C2: if the first k transport calls are answered with a retryable status
\* and call k+1 with a 2xx response (hooks only observing), the settled
\* execution is resolved with that 2xx response of attempt k, after exactly
\* k+1 calls and k before-retry rounds, having waited delay(1), ..., delay(k)
\* (3000 ms in all for k = 2), and nothing was started after the success.
C2_SucceedsAfterRetries ==
    ( /\ Settled
      /\ hooksPassive
      /\ calls >= 1
      /\ lastAnswer.kind = "response" /\ Ok(lastAnswer.status)
      /\ \A a \in prevAnswers : RetryableAnswer(a) )
    => /\ outcome = Resolved(Response(lastAnswer.status, calls - 1))
       /\ attempt = calls - 1
       /\ \A h \in 1 .. NumHooks("beforeRetry") : BeforeRetryCount(h) = calls - 1
       /\ Len(retryCalls) = (calls - 1) * NumHooks("beforeRetry")
       /\ Len(delays) = calls - 1
       /\ \A i \in DOMAIN delays : delays[i] = ExpectedBackoff(i)
       /\ (calls = 3 => SumSeq(delays) = 1000 + 2000)

C2_Witness ==
    /\ Settled
    /\ hooksPassive
    /\ retryLimit = 2
    /\ calls = 3
    /\ prevAnswers = {Answered("response", 500)}
    /\ outcome.state = "resolved"
    /\ outcome.response.status = 200
    /\ delays = <<1000, 2000>>

\* C3: for a method outside the retry allow-list, an attempt that fails
\* with an HTTPError of retryable status ends the execution at once,
\* whatever the retry limit: one transport call, no before-retry hook, no
\* backoff, and that HTTPError is raised.
C3_NonRetryableMethod ==
    ( /\ method \notin retryMethods
      /\ lastError.kind = "HTTPError"
      /\ lastError.status \in retryStatusCodes )
    => /\ Settled
       /\ outcome = Rejected(lastError)
       /\ attempt = 0
       /\ calls = 1
       /\ retryCalls = <<>>
       /\ delays = <<>>

C3_Witness ==
    /\ Settled
    /\ method = "POST"
    /\ retryLimit = 2
    /\ outcome.error.kind = "HTTPError"
    /\ outcome.error.status = 500
    /\ calls = 1

\* C4: an attempt that fails with the HTTPError of the transport's own
\* response (no hook replaced the response or the error) whose status is
\* not in the retryable set ends the execution: that error is raised and no
\* before-retry hook or backoff follows, whatever the method and the limit.
C4_NonRetryableStatus ==
    ( /\ lastError.kind = "HTTPError"
      /\ lastError.response.by = 0
      /\ lastError.status \notin retryStatusCodes )
    => /\ throwHttpErrors
       /\ Settled
       /\ outcome = Rejected(lastError)
       /\ lastError.att = attempt
       /\ NoRetryOfThisAttempt

C4_Witness ==
    /\ Settled
    /\ method = "GET"
    /\ retryLimit = 2
    /\ attempt = 1
    /\ outcome.error.kind = "HTTPError"
    /\ outcome.error.status = 404
    /\ outcome.error.response.by = 0

\* C5: an attempt that ends with TimeoutError ends the execution: the
\* TimeoutError is raised at once, with no before-retry hook and no backoff
\* for that attempt, also for a retryable method with attempts remaining.
C5_TimeoutNeverRetried ==
    lastError.kind = "TimeoutError"
    => /\ Settled
       /\ outcome = Rejected(lastError)
       /\ lastError.att = attempt
       /\ NoRetryOfThisAttempt

C5_Witness ==
    /\ Settled
    /\ method = "GET"
    /\ attempt < retryLimit
    /\ outcome.error.kind = "TimeoutError"

\* C6: once a timeout timer has expired while the transport call was in
\* flight, the execution delivers no response: it stays in flight until it
\* is rejected with TimeoutError (not HTTPError, not a transport error).
C6_TimeoutRejects ==
    "timer" \in causes
    => /\ timeoutMs # 0
       /\ \/ InFlight
          \/ /\ Settled
             /\ outcome.state = "rejected"
             /\ outcome.error.kind = "TimeoutError"
             /\ outcome.response = NoResponse

C6_Witness ==
    /\ Settled
    /\ causes = {"timer"}
    /\ lastAnswer.kind = "abort"
    /\ outcome.error.kind = "TimeoutError"

\* C7: every pending timeout timer belongs to the attempt in progress: once
\* an attempt has ended by any path its timer has been cleared, so no timer
\* is pending between attempts or after the execution has settled.
C7_TimerClearedOnEveryPath ==
    \A i \in DOMAIN timers :
        /\ timers[i] = attempt
        /\ pc \in {"beforeRequest", "fetching", "reading", "afterResponse", "beforeError"}

\* C8: if abort() is called while the execution is pending (and no hook
\* throws), then no transport call is started on a live signal after it
\* and the settled execution is rejected with TimeoutError.
C8_AbortRejects ==
    hooksPassive
    => /\ abortSeen # "called"
       /\ (Settled /\ abortSeen # "no")
            => (outcome.state = "rejected" /\ outcome.error.kind = "TimeoutError")

\* C9: whichever causes fired the cancellation signal while the transport
\* call was in flight (timer, external signal, abort()), the execution
\* stays in flight until it is rejected with the TimeoutError of that attempt.
C9_OneErrorForEveryCause ==
    \A c \in {"timer", "external", "abort"} :
        c \in causes
        => \/ InFlight
           \/ (Settled /\ outcome = Rejected(TimeoutError(attempt)))

C9_Witness ==
    /\ Settled
    /\ causes = {"timer", "external", "abort"}
    /\ outcome = Rejected(TimeoutError(attempt))

\* C10: an attempt that ends because a hook threw ends the execution: it
\* is rejected with that hook's error and nothing is retried.
C10_HookErrorTerminal ==
    lastError.kind \in HookErrorKinds
    => /\ Settled
       /\ outcome = Rejected(lastError)
       /\ NoRetryOfThisAttempt

\* The hooks of category cat invoked so far in the current attempt.
Invoked(cat) == {i \in DOMAIN log : log[i].what = "call" /\ log[i].cat = cat}

\* C11: with hooks that only observe, when an attempt's failure is followed
\* by a retry (its before-retry hooks run, or its backoff wait is under
\* way), no before-error hook was invoked in that attempt.
C11_BeforeErrorOnlyWhenRaised ==
    (hooksPassive /\ pc \in {"beforeRetry", "backoff"}) => Invoked("beforeError") = {}

\* The working response an observer of the after-response hooks expects:
\* the transport's response of this attempt, or the last substitution.
WorkingResponse ==
    IF lastReplace.hook = 0
      THEN Response(lastAnswer.status, attempt)
      ELSE Replacement(lastReplace.status, attempt, lastReplace.hook)

\* C12: the after-response hooks form a chain.  The hook being awaited was
\* given the response left by the hooks before it (the last substitution,
\* or the transport's response if there was none); the response the
\* execution resolves with, and the response embedded in the HTTPError of
\* the attempt, is the one left by the last hook.
C12_AfterResponseChain ==
    /\ pc = "afterResponse" => response = WorkingResponse
    /\ (Settled /\ outcome.state = "resolved") => outcome.response = WorkingResponse
    /\ error.kind = "HTTPError" => error.response = WorkingResponse
    /\ lastError.kind = "HTTPError" => lastError.response = WorkingResponse
    /\ (Settled /\ outcome.error.kind = "HTTPError") => outcome.error.response = WorkingResponse

\* Hook 1 substituted a response, hook 2 returned nothing, and the
\* execution resolved with the substitute.
C12_Witness ==
    /\ Settled
    /\ nHooks = 2
    /\ lastReplace.hook = 1
    /\ outcome = Resolved(Replacement(lastReplace.status, attempt, 1))
    /\ lastReplace.status # lastAnswer.status

\* C13 as stated: the body encoder runs at most once in an execution and
\* every transport call is passed the same URL and body.
C13_PreparedOncePerExecution ==
    /\ encodes <= 1
    /\ Cardinality(sent) <= 1

\* C13, amended: the URL and the body are prepared once per attempt, at the
\* start of doFetch.  The encoder has run once for every attempt started;
\* the URL and body of an attempt are those of the request as it stands,
\* unless a before-request hook of this very attempt edited it (the edit
\* reaches the next attempt); and the transport is called with them.
C13_PreparedOncePerAttempt ==
    /\ (pc # "idle" /\ retryLimit >= 0) => encodes = attempt + 1
    /\ (Running /\ ~\E i \in DOMAIN log : log[i].what = "edit")
         => prepared = [url |-> BuildUrl(query), body |-> Text(stringifyJson(body.members))]
    /\ InFlight => prepared \in sent
    /\ Cardinality(sent) <= calls

\* Two attempts called the transport with different URLs and bodies.
C13_Witness ==
    /\ encodes = 2
    /\ calls = 2
    /\ \E p1, p2 \in sent : p1.url # p2.url /\ p1.body # p2.body

\* C14: the wait started before the k-th retry is delay(k): the configured
\* delay function applied to k when one is given, and otherwise
\* min(1000 * 2^(k-1), 30000), that is 1000, 2000, 4000, 8000, 16000 for
\* k = 1..5 and 30000 from k = 6 on.  One wait is started per retry.
C14_BackoffSchedule ==
    /\ Len(delays) = attempt + (IF pc = "backoff" THEN 1 ELSE 0)
    /\ Len(delays) <= retryLimit
    /\ \A k \in DOMAIN delays :
         IF customDelay
           THEN delays[k] = CustomDelay(k)
           ELSE /\ delays[k] = ExpectedBackoff(k)
                /\ k <= 5 => delays[k] = 1000 * 2^(k - 1)
                /\ k >= 6 => delays[k] = 30000

\* Seven retries under the default schedule: the cap is reached at the sixth.
C14_Witness ==
    /\ ~customDelay
    /\ delays = <<1000, 2000, 4000, 8000, 16000, 30000, 30000>>

\* With a delay function configured, its values are the waits.
C14_WitnessCustom ==
    /\ customDelay
    /\ delays = <<2000, 4000, 8000, 16000, 30000>>

\* Every transport call made so far failed with a network error (the last
\* one may still be in flight).
OnlyTransportFailures ==
    /\ calls >= 1
    /\ \A a \in prevAnswers : a.kind = "neterr"
    /\ lastAnswer.kind \in {"neterr", "inflight"}

\* C15: for a retryable method, retry limit N >= 0, hooks that only observe
\* and a transport that rejects every call with a network failure, whatever
\* throw-on-HTTP-error says, at most N+1 transport calls are made, and the
\* settled execution has made exactly N+1 calls and is rejected with the
\* transport error of the last attempt.
C15_TransportFailureRetried ==
    ( /\ method \in retryMethods
      /\ retryLimit >= 0
      /\ hooksPassive
      /\ OnlyTransportFailures )
    => /\ calls <= retryLimit + 1
       /\ Settled => /\ calls = retryLimit + 1
                     /\ outcome = Rejected(TransportError(retryLimit))

C15_Witness ==
    /\ method \in retryMethods
    /\ retryLimit = 2
    /\ hooksPassive
    /\ OnlyTransportFailures
    /\ Settled
    /\ calls = 3
    /\ outcome = Rejected(TransportError(2))

\* C16: with throw-on-HTTP-error disabled no HTTPError exists at any time
\* and no before-error hook is invoked.  With hooks that only observe, a
\* transport call answered with a response is the last one (none precedes
\* it that was answered with a response), no retry follows it, and the
\* execution resolves with that response whatever its status.
C16_NoThrowOnHttpError ==
    ~throwHttpErrors
    => /\ pc # "beforeError"
       /\ Invoked("beforeError") = {}
       /\ error.kind # "HTTPError"
       /\ lastError.kind # "HTTPError"
       /\ outcome.error.kind # "HTTPError"
       /\ hooksPassive
            => /\ \A a \in prevAnswers : a.kind # "response"
               /\ lastAnswer.kind = "response" => pc \notin {"beforeRetry", "backoff"}
               /\ (lastAnswer.kind = "response" /\ Settled)
                    => outcome = Resolved(Response(lastAnswer.status, attempt))

\* A retryable status, a retryable method and a positive retry limit: one
\* call, resolved with the 500 response.
C16_Witness ==
    /\ ~throwHttpErrors
    /\ method \in retryMethods
    /\ retryLimit = 2
    /\ nHooks = 2
    /\ hooksPassive
    /\ Settled
    /\ calls = 1
    /\ retryCalls = <<>>
    /\ outcome = Resolved(Response(500, 0))

\* C17: end(callback) invokes the callback at most once, and exactly once
\* when its promise chain has run to completion.
C17_CallbackExactlyOnce ==
    /\ Len(callbacks) <= 1
    /\ endPc = "done" => Len(callbacks) = 1

\* The callback threw in the handler of catch(): the promise end() built
\* and discarded is rejected, with nothing to handle the rejection.
C17_RejectionEscapes == endPc = "unhandled"

\* C18: at most one transport call is in flight.  No call was made while
\* the one before it was unanswered, and a call is unanswered only while the
\* execution waits for it.  Attempt k+1 is started only after attempt k has
\* settled and been followed by every before-retry hook and by a backoff
\* wait: there is one transport call per attempt at most, and every earlier
\* attempt has had all its before-retry hooks invoked and its wait started.
C18_OneCallInFlight ==
    /\ \A a \in prevAnswers : a.kind # "inflight"
    /\ (lastAnswer.kind = "inflight") = (pc = "fetching")
    /\ pc = "backoff" => lastAnswer.kind # "inflight"
    /\ calls <= attempt + 1
    /\ pc \notin {"idle", "backoff"} => Len(delays) = attempt
    /\ Len(retryCalls) >= nHooks * attempt
    /\ \A i \in 1 .. nHooks * attempt :
         /\ retryCalls[i].att = (i - 1) \div nHooks
         /\ retryCalls[i].hook = ((i - 1) % nHooks) + 1

\* The third transport call is in flight, after two rounds of two
\* before-retry hooks and two waits.
C18_Witness ==
    /\ pc = "fetching"
    /\ calls = 3
    /\ nHooks = 2
    /\ Len(retryCalls) = 4
    /\ Len(delays) = 2

\* The positions in the log of the events of category cat.
Pos(cat) == {i \in DOMAIN log : log[i].cat = cat}

\* The hooks of category cat that have returned in the current attempt.
Returned(cat) == {log[i].i : i \in {j \in Pos(cat) : log[j].what = "return"}}

\* Every position of A comes before every position of B.
Precede(A, B) == \A i \in A : \A j \in B : i < j

\* C19: in every attempt all before-request hooks have returned before the
\* transport is called; all after-response hooks have returned before the
\* HTTP-error test, which comes before any before-error hook; all
\* before-retry hooks have returned before the backoff wait starts; and an
\* attempt after the first begins with the end of the wait before it, ahead
\* of its before-request hooks and its transport call.
C19_PhaseOrder ==
    LET request == Pos("beforeRequest")
        transport == Pos("transport")
        after == Pos("afterResponse")
        check == Pos("check")
        onError == Pos("beforeError")
        retry == Pos("beforeRetry")
        waitStart == {i \in Pos("backoff") : log[i].what = "call"}
        waitEnd == {i \in Pos("backoff") : log[i].what = "return"}
    IN  /\ Precede(request, transport)
        /\ Precede(after, check)
        /\ Precede(check, onError)
        /\ Precede(retry, waitStart)
        /\ Precede(waitEnd, request \cup transport)
        /\ transport # {} => Returned("beforeRequest") = 1 .. nHooks
        /\ check # {} => Returned("afterResponse") = 1 .. nHooks
        /\ waitStart # {} => Returned("beforeRetry") = 1 .. nHooks
        /\ pc = "backoff" => waitStart = {Len(log)}
        /\ (attempt >= 1 /\ Running) => waitEnd = {1}

\* A second attempt has gone through every phase with two hooks in each.
C19_Witness ==
    /\ attempt = 1
    /\ pc = "backoff"
    /\ nHooks = 2
    /\ \A cat \in {"beforeRequest", "afterResponse", "beforeError", "beforeRetry"} :
         Returned(cat) = {1, 2}

HookCategories == {"beforeRequest", "afterResponse", "beforeError", "beforeRetry"}

\* The events of the hooks of category cat in the current attempt.
HookEvents(cat) == SelectSeq(log, LAMBDA e : e.cat = cat)

\* The hook events of the current attempt, all categories together.
AllHookEvents == SelectSeq(log, LAMBDA e : e.cat \in HookCategories)

\* The events evs are those of hooks 1, 2, ... invoked in this order, each
\* after the one before it has settled.
OneAtATime(evs, cat) ==
    \A k \in DOMAIN evs :
        IF k % 2 = 1
          THEN evs[k] = Ev("call", cat, (k + 1) \div 2)
          ELSE /\ evs[k].what \in {"return", "throw"}
               /\ evs[k].i = k \div 2

\* C20: within each category the hooks are invoked in list order (the order
\* in which mergeHooks and hook() pushed them), hook i+1 only after hook i
\* has settled, and none beyond the last; and at most one hook of the
\* execution is running, the one the execution waits for.
C20_HooksSequential ==
    LET all == AllHookEvents
    IN  /\ \A cat \in HookCategories :
             /\ OneAtATime(HookEvents(cat), cat)
             /\ \A i \in Invoked(cat) : log[i].i <= nHooks
        /\ \A k \in DOMAIN all : (k % 2 = 1) = (all[k].what = "call")
        /\ (Len(all) % 2 = 1)
             => /\ pc \in HookCategories
                /\ log[Len(log)] = Ev("call", pc, hookIdx)

\* Both hooks of every category have run in one attempt.
C20_Witness ==
    /\ pc = "backoff"
    /\ nHooks = 2
    /\ Len(AllHookEvents) = 16

\* C21: a request whose _retry is the initial { limit: 0 }, or was replaced
\* by options that give no limit, makes one attempt: at most one transport
\* call, no before-retry hook, no backoff wait, and the failure the attempt
\* ended with is what the settled execution is rejected with.
C21_NoLimitNoRetry ==
    limitOption \in {<<>>, <<0>>}
    => /\ calls <= 1
       /\ attempt = 0
       /\ pc \notin {"beforeRetry", "backoff"}
       /\ retryCalls = <<>>
       /\ delays = <<>>
       /\ lastError # NullError => (Settled /\ outcome = Rejected(lastError))

\* Retry options without a limit, a retryable method, a retryable status:
\* the HTTPError of the only attempt is raised.
C21_Witness ==
    /\ limitOption = <<>>
    /\ method \in retryMethods
    /\ Settled
    /\ calls = 1
    /\ outcome = Rejected(HTTPError(Response(500, 0)))

\* A timer expires and fires the signal of the attempt whose transport call
\* is in flight.
TimerCancelsCall ==
    /\ timers # <<>>
    /\ timers' = Tail(timers)
    /\ pc' = pc
    /\ InFlight
    /\ ~ctrlAborted
    /\ ctrlAborted'

\* C26: an attempt is cancelled by timeout only through its own timer: a
\* timer that fires the signal of an attempt in flight was armed by that
\* attempt.
C26_OwnTimerOnly == [][TimerCancelsCall => Head(timers) = attempt]_vars

\* An attempt begins: a new controller replaces the one before it.
AttemptBegins == ctrl' # ctrl

\* C27: an attempt that begins when the external signal is already aborted
\* has its cancellation signal fired.
C27_AbortedSignalCancels ==
    [][(AttemptBegins /\ hasExternal /\ externalAborted) => ctrlAborted']_vars

\* C28: the request has at most one abort listener on the external signal.
C28_OneListener == listeners <= 1

\* C30: when a before-error hook has replaced the HTTPError of a response
\* whose status is not retryable, the attempt is not retried: the execution
\* is settled, rejected with the replacement.
C30_ReplacementNotRetried ==
    ( /\ lastError.kind = "CustomError"
      /\ lastAnswer.kind = "response"
      /\ lastAnswer.status \notin retryStatusCodes )
    => /\ Settled
       /\ outcome = Rejected(lastError)
       /\ NoRetryOfThisAttempt

\* C22: blob() and arrayBuffer() resolve with the binary content after a
\* successful exchange: once the transport has answered with a response and
\* doFetch has returned it, the execution settles resolved.
C22_BinaryResolves ==
    (entry = "blob" /\ Settled /\ hooksPassive /\ lastAnswer.kind = "response"
     /\ ~ThrowsHttpError(lastAnswer.status))
    => outcome.state = "resolved"

\* The entries of header map h that name the content-type header, in any
\* letter case.
ContentTypeEntries(h) == {i \in DOMAIN h : ToLowerCase(h[i][1]) = "content-type"}

\* C23: whenever a form field or an attachment is present, the transport is
\* called, on every attempt, with a multipart payload holding every form
\* field in insertion order followed by every attachment in attach order,
\* and with a header map without content-type entry; the send() body is not
\* the payload.
C23_MultipartPayload ==
    (InFlight /\ IsMultipart(formFields, attachments))
    => LET parts == prepared.body.parts
           nf == Len(fieldNames)
       IN /\ prepared \in sent
          /\ prepared.body.kind = "multipart"
          /\ Len(parts) = nf + Len(attachments)
          /\ \A i \in 1 .. nf :
               parts[i] = [name |-> fieldNames[i], value |-> Get(formFields, fieldNames[i]),
                           isFile |-> FALSE, filename |-> ""]
          /\ \A j \in 1 .. Len(attachments) :
               parts[nf + j] = [name |-> attachments[j].name,
                                value |-> attachments[j].file.data,
                                isFile |-> TRUE, filename |-> attachments[j].filename]
          /\ ContentTypeEntries(headers) = {}

\* C24: an attempt of a request without form field and attachment prepares
\* no payload for an undefined body, the string coercion for a string or a
\* number, and for an object the key=value encoding when the content-type
\* header indicates form-urlencoding, else the JSON text; in the last case
\* content-type is set to application/json when the map had none, and the
\* map is left as it was otherwise.
C24_BodyEncoding ==
    [][(AttemptBegins /\ ~IsMultipart(formFields, attachments))
       => LET entries == ContentTypeEntries(headers)
              form == \E i \in entries : IsFormUrlencoded(headers[i][2])
          IN /\ prepared'.body =
                  IF body.type = "undefined" THEN NoPayload
                  ELSE IF body.type = "object"
                    THEN IF form THEN Text(SearchParams(body.members))
                                 ELSE Text(stringifyJson(body.members))
                  ELSE Text(String(body))
             /\ (body.type = "object" /\ ~form)
                  => headers' = IF entries = {}
                                  THEN Append(headers, <<"content-type", "application/json">>)
                                  ELSE headers]_vars

\* The transport answered with a response marked as JSON whose text the
\* parser throws on.
UnparsableJson(a) ==
    /\ a.kind = "response"
    /\ IncludesJson(a.reply.contentType)
    /\ a.reply.text # <<>>
    /\ ~parseJson(a.reply.text).ok

\* C25: a response marked as JSON whose text the parser throws on is still
\* produced, with the raw text as body: the after-response hooks are given
\* it, the HTTP-error test decides by its status alone, and the execution
\* is retried or rejected only for that status, with the HTTPError.
C25_ParseFailureKept ==
    UnparsableJson(lastAnswer)
    => LET produced == ResponseOf(lastAnswer.status, attempt, Raw(lastAnswer.reply.text))
       IN /\ pc = "afterResponse" => response = produced
          /\ pc = "beforeError" => error = HTTPError(produced)
          /\ pc \in {"beforeRetry", "backoff"}
               => lastError = HTTPError(produced) /\ lastAnswer.status \in retryStatusCodes
          /\ Settled
               => outcome = IF Ok(lastAnswer.status) THEN Resolved(produced)
                                                     ELSE Rejected(HTTPError(produced))

\* An execution resolved with a response whose JSON text could not be parsed.
C25_Witness ==
    /\ Settled
    /\ UnparsableJson(lastAnswer)
    /\ outcome.state = "resolved"
    /\ outcome.response.body = Raw(<<"{", "ok">>)

\* A timer expires and its callback runs.
TimerExpires ==
    /\ timers # <<>>
    /\ timers' = Tail(timers)
    /\ pc' = pc
    /\ other'.pc = other.pc

\* C29: a timer cancels only the execution that armed it: when its expiry
\* fires the signal of an execution whose transport call is in flight, the
\* timer was armed by that execution.
C29_TimersIndependent ==
    [][TimerExpires
       => /\ (InFlight /\ ~ctrlAborted /\ ctrlAborted') => Head(timers) # OtherCtrl
          /\ (other.pc = "fetching" /\ ~other.aborted /\ other'.aborted)
               => Head(timers) = OtherCtrl]_vars

\* C31: a before-error hook that returns nothing leaves the error as it
\* was: the working error of the before-error loop is always the HTTPError
\* of the response or a replacement a hook returned, and this is what the
\* attempt fails with (never the TypeError of reading a property of
\* undefined).
C31_NothingKeepsError ==
    /\ pc = "beforeError" => error.kind \in {"HTTPError", "CustomError"}
    /\ lastError.kind # "TypeError"

\* C32: on the k-th retry every before-retry hook is called with the number
\* k and with lastError, which while the hooks run and the wait is computed
\* is the error the attempt that just failed was rejected with; the delay
\* function is then called with k.  The numbers passed over one execution
\* are 1, 2, ... in increasing order, one per retry.
C32_RetryNumbers ==
    /\ \A i \in DOMAIN retryCalls :
         /\ retryCalls[i].n = (i - 1) \div nHooks + 1
         /\ retryCalls[i].n = retryCalls[i].att + 1
    /\ pc \in {"beforeRetry", "backoff"} =>
         /\ lastError.att = attempt
         /\ lastError.kind \notin {"none", "null", "undefined", "AbortError", "TimeoutError"}
         /\ lastError.kind = "HTTPError" =>
              /\ lastAnswer.kind = "response"
              /\ lastError.response.att = attempt
         /\ lastError.kind = "TransportError" => lastAnswer.kind = "neterr"
    /\ \A k \in DOMAIN delays :
         /\ delays[k] = retryDelay(k)
         /\ nHooks > 0 => \A h \in 1 .. nHooks : retryCalls[(k - 1) * nHooks + h].n = k
    /\ retryDelay(1) < retryDelay(2) /\ retryDelay(2) < retryDelay(3)
    /\ Len(delays) = attempt + (IF pc = "backoff" THEN 1 ELSE 0)
    /\ Len(retryCalls) >= nHooks * Len(delays)
    /\ Len(retryCalls) <= nHooks * (attempt + 1)

\* The second retry of an execution with two before-retry hooks has been
\* prepared: both hooks were called with 1 and then with 2, and two waits
\* were computed.
C32_Witness ==
    /\ nHooks = 2
    /\ Len(retryCalls) = 4
    /\ Len(delays) = 2
    /\ retryCalls[4].n = 2
    /\ pc = "backoff"
    /\ lastError.kind = "HTTPError"

C34_LowerCaseKeys ==
    InFlight
    => /\ \A i \in DOMAIN headers : headers[i][1] = ToLowerCase(headers[i][1])
       /\ Cardinality(ContentTypeEntries(headers)) <= 1

\* C35: whether an attempt raises HTTPError is decided by the status of the
\* transport's own response alone: the before-error hooks run, and an
\* HTTPError is what the execution is rejected with, only after a transport
\* response that is not ok, whatever status the working response has, and
\* the execution resolves, when HTTP errors are thrown, only after a
\* transport response that is ok, whatever status the response it resolves
\* with has.
C35_TransportStatusDecides ==
    /\ (pc = "beforeError" \/ (Settled /\ outcome.error.kind = "HTTPError"))
         => /\ throwHttpErrors
            /\ lastAnswer.kind = "response"
            /\ ~Ok(lastAnswer.status)
    /\ (Settled /\ outcome.state = "resolved" /\ throwHttpErrors)
         => /\ lastAnswer.kind = "response"
            /\ Ok(lastAnswer.status)
    /\ (pc \in {"beforeRetry", "backoff"} /\ lastAnswer.kind = "response"
          /\ lastError.kind \notin HookErrorKinds \cup {"SyntaxError"})
         => ~Ok(lastAnswer.status)

\* A 404 response replaced by a 200 one: the execution is rejected with an
\* HTTPError that embeds the 200 response.
C35_Witness ==
    /\ Settled
    /\ lastAnswer = Answered("response", 404)
    /\ outcome.error.kind = "HTTPError"
    /\ outcome.error.response.status = 200
    /\ outcome.error.response.by > 0

\* A 200 response replaced by a 500 one: the execution resolves with it.
C35_WitnessResolved ==
    /\ Settled
    /\ throwHttpErrors
    /\ lastAnswer = Answered("response", 200)
    /\ outcome.state = "resolved"
    /\ outcome.response.status = 500

\* Both consumptions of the request have settled.
BothSettled == Settled /\ other.pc = "settled"

C37_BinaryOneAttempt ==
    entry = "blob"
    => /\ attempt = 0
       /\ calls <= 1
       /\ encodes <= 1
       /\ pc \notin {"beforeRetry", "backoff"}
       /\ retryCalls = <<>>
       /\ delays = <<>>
       /\ lastError = NullError
       /\ (lastAnswer.kind = "neterr" \/ (calls = 0 /\ pc \notin {"idle", "beforeRequest"}))
            => /\ Settled
               /\ outcome.state = "rejected"
       /\ (lastAnswer.kind = "response" /\ ThrowsHttpError(lastAnswer.status)
             /\ pc \notin {"reading", "afterResponse", "beforeError"})
            => /\ Settled
               /\ outcome.state = "rejected"

\* A GET answered 500 with two retries configured: then() would retry it,
\* blob() rejects after the one transport call.
C37_Witness ==
    /\ entry = "blob"
    /\ Settled
    /\ calls = 1
    /\ retryLimit = 2
    /\ outcome.error.kind = "HTTPError"
    /\ outcome.error.status = 500
    /\ ~ShouldRethrow(outcome.error, 0)

\* C39: for every integer retry limit, negative ones included, an
\* execution whose hooks do not interfere has called the transport at least
\* once when it settles, and an execution that rejects rejects with an
\* error produced by an attempt or a hook, never with null.
C39_AtLeastOneAttempt ==
    Settled
    => /\ hooksPassive => calls >= 1
       /\ outcome.state = "rejected" => outcome.error.kind # "null"

\* C38: for every retry limit N >= 0, when the transport and every hook
\* eventually settle and every backoff wait ends, an execution that has
\* started eventually settles, and it never makes more than N + 1
\* transport calls nor starts more than N backoff waits.
C38_Terminates ==
    /\ [](calls <= retryLimit + 1 /\ Len(delays) <= retryLimit)
    /\ (pc # "idle") ~> Settled

\* An execution with limit 2 settled after three transport calls and two
\* backoff waits.
C38_Witness ==
    /\ Settled
    /\ retryLimit = 2
    /\ calls = 3
    /\ Len(delays) = 2
    /\ outcome.state = "rejected"

====
